---- MODULE Spec2Model ----
(***************************************************************************)
(* AsyncAWS: the Signature Version 4 request signer (AWSRequest) and the   *)
(* SQS / SNS clients that build a query URL, sign it and hand the request  *)
(* to the HTTP transport.                                                  *)
(*                                                                         *)
(* A Python str is a sequence of one-character strings; a hex digest is a  *)
(* single opaque element of such a sequence (hash functions are modelled   *)
(* as injective constructors).                                             *)
(***************************************************************************)
EXTENDS Integers, Sequences, FiniteSets, TLC

VARIABLES
    calls,      \* every AWSRequest construction started so far, in start order
    heap,       \* the header dicts that exist, by reference (index)
    now,        \* the wall clock read by datetime.utcnow(), in seconds since Epoch
    transport,  \* the requests handed to self._http.fetch, in call order
    client      \* what the SQS / SNS client objects hold: region and the two keys

vars == <<calls, heap, now, transport, client>>

-----------------------------------------------------------------------------
(* Bounds of the model.                                                     *)

\* AWSRequest constructions per behaviour
MaxCalls == 2
\* seconds the clock may advance
MaxTicks == 1
\* '&'-separated tokens of a query string drawn for the canonicalisation runs
MaxTokens == 3

-----------------------------------------------------------------------------
(* Python built-ins on str and list.                                        *)

\* the printable ASCII characters from ' ' (32) to '_' (95), and 'a' (97) to 'z' (122)
AsciiUpper == <<" ","!","\"","#","$","%","&","'","(",")","*","+",",","-",".","/","0","1","2","3","4","5","6","7","8","9",":",";","<","=",">","?","@","A","B","C","D","E","F","G","H","I","J","K","L","M","N","O","P","Q","R","S","T","U","V","W","X","Y","Z","[","\\","]","^","_">>

AsciiLower == <<"a","b","c","d","e","f","g","h","i","j","k","l","m","n","o","p","q","r","s","t","u","v","w","x","y","z">>

Printable == {AsciiUpper[i] : i \in 1..Len(AsciiUpper)} \cup {AsciiLower[i] : i \in 1..Len(AsciiLower)}

\* ord(c) of every printable ASCII character
OrdTable ==
    [c \in Printable |->
        IF \E i \in 1..Len(AsciiLower) : AsciiLower[i] = c
        THEN 96 + (CHOOSE i \in 1..Len(AsciiLower) : AsciiLower[i] = c)
        ELSE 31 + (CHOOSE i \in 1..Len(AsciiUpper) : AsciiUpper[i] = c)]

ord(c) == OrdTable[c]

MinOf(S) == CHOOSE i \in S : \A j \in S : i <= j

\* a < b for two str: bytewise lexicographic, a proper prefix is smaller
StrLess(a, b) ==
    LET n == IF Len(a) < Len(b) THEN Len(a) ELSE Len(b)
        d == {i \in 1..n : a[i] # b[i]}
    IN  IF d = {} THEN Len(a) < Len(b)
        ELSE ord(a[MinOf(d)]) < ord(b[MinOf(d)])

\* insort, were the tokens compared by key and then by value
insort_by_key_then_value(xs, x) ==
    LET eq(tok)   == {i \in 1..Len(tok) : tok[i] = "="}
        name(tok) == IF eq(tok) = {} THEN tok ELSE SubSeq(tok, 1, MinOf(eq(tok)) - 1)
        val(tok)  == IF eq(tok) = {} THEN <<>> ELSE SubSeq(tok, MinOf(eq(tok)) + 1, Len(tok))
        less(a, b) == \/ StrLess(name(a), name(b))
                      \/ name(a) = name(b) /\ StrLess(val(a), val(b))
        gt == {i \in 1..Len(xs) : less(x, xs[i])}
        p  == IF gt = {} THEN Len(xs) + 1 ELSE MinOf(gt)
    IN  SubSeq(xs, 1, p - 1) \o <<x>> \o SubSeq(xs, p, Len(xs))

\* the list xs with x put after every element that is not greater than x
insort(xs, x) ==
    LET gt == {i \in 1..Len(xs) : StrLess(x, xs[i])}
        p  == IF gt = {} THEN Len(xs) + 1 ELSE MinOf(gt)
    IN  SubSeq(xs, 1, p - 1) \o <<x>> \o SubSeq(xs, p, Len(xs))

RECURSIVE sorted(_)
\* sorted(xs) of a list of str: ascending, stable
sorted(xs) ==
    IF xs = <<>> THEN <<>>
    ELSE insort(sorted(SubSeq(xs, 1, Len(xs) - 1)), xs[Len(xs)])

RECURSIVE split(_, _)
\* s.split(sep) for a one-character separator: never empty, '' gives ['']
split(s, sep) ==
    LET at == {i \in 1..Len(s) : s[i] = sep}
    IN  IF at = {} THEN <<s>>
        ELSE <<SubSeq(s, 1, MinOf(at) - 1)>>
                 \o split(SubSeq(s, MinOf(at) + 1, Len(s)), sep)

RECURSIVE join(_, _)
\* sep.join(xs)
join(sep, xs) ==
    IF xs = <<>> THEN <<>>
    ELSE IF Len(xs) = 1 THEN xs[1]
    ELSE xs[1] \o sep \o join(sep, Tail(xs))

Digits == <<"0","1","2","3","4","5","6","7","8","9">>

RECURSIVE str(_)
\* str(n) of a non-negative int
str(n) == IF n < 10 THEN <<Digits[n + 1]>> ELSE str(n \div 10) \o <<Digits[(n % 10) + 1]>>

\* '%0<w>d' % n
zfill(n, w) ==
    LET s == str(n)
    IN  [i \in 1..(IF w > Len(s) THEN w - Len(s) ELSE 0) |-> "0"] \o s

-----------------------------------------------------------------------------
(* datetime: utcnow() and strftime.                                         *)

\* the instant the clock shows at now = 0: one second before a month ends
Epoch == [year |-> 2015, month |-> 8, day |-> 31, second |-> 86399]

IsLeap(y) == (y % 4 = 0 /\ y % 100 # 0) \/ y % 400 = 0

DaysInMonth(y, m) ==
    IF m = 2 THEN (IF IsLeap(y) THEN 29 ELSE 28)
    ELSE IF m \in {4, 6, 9, 11} THEN 30 ELSE 31

RECURSIVE AddDays(_, _)
\* the calendar date n days after date d
AddDays(d, n) ==
    IF n = 0 THEN d
    ELSE IF d.day < DaysInMonth(d.year, d.month)
         THEN AddDays([d EXCEPT !.day = @ + 1], n - 1)
    ELSE IF d.month < 12
         THEN AddDays([d EXCEPT !.day = 1, !.month = @ + 1], n - 1)
    ELSE AddDays([year |-> d.year + 1, month |-> 1, day |-> 1], n - 1)

\* datetime.datetime.utcnow() when the clock shows `clock`
utcnow(clock) ==
    LET total == Epoch.second + clock
        date  == AddDays([year |-> Epoch.year, month |-> Epoch.month, day |-> Epoch.day],
                         total \div 86400)
        sod   == total % 86400
    IN  [year |-> date.year, month |-> date.month, day |-> date.day,
         hour |-> sod \div 3600, minute |-> (sod % 3600) \div 60, second |-> sod % 60]

\* t.strftime('%Y%m%d')
strftime_Ymd(t) == zfill(t.year, 4) \o zfill(t.month, 2) \o zfill(t.day, 2)

\* t.strftime('%Y%m%dT%H%M%SZ')
strftime_YmdTHMSZ(t) ==
    strftime_Ymd(t) \o <<"T">> \o zfill(t.hour, 2) \o zfill(t.minute, 2)
        \o zfill(t.second, 2) \o <<"Z">>

-----------------------------------------------------------------------------
(* hashlib / hmac: injective constructors.                                  *)

\* hashlib.sha256(msg).hexdigest(): a str holding one opaque element
sha256_hexdigest(msg) == <<ToString(<<"sha256", msg>>)>>

\* hmac.new(key, msg, hashlib.sha256).digest(): opaque bytes
hmac_digest(key, msg) == <<"hmac-sha256", key, msg>>

\* hmac.new(key, msg, hashlib.sha256).hexdigest()
hmac_hexdigest(key, msg) == <<ToString(hmac_digest(key, msg))>>

-----------------------------------------------------------------------------
(* urlparse.urlparse, tornado.httputil.url_concat, urllib.urlencode.        *)

\* the first index >= from at which one of the characters cs occurs, else Len(s) + 1
FindAny(s, cs, from) ==
    LET at == {i \in from..Len(s) : s[i] \in cs}
    IN  IF at = {} THEN Len(s) + 1 ELSE MinOf(at)

\* url with its scheme and ':' removed, when it has a scheme
AfterScheme(url) ==
    LET c == FindAny(url, {":"}, 1)
    IN  IF c > 1 /\ c <= Len(url) THEN SubSeq(url, c + 1, Len(url)) ELSE url

HasNetloc(rest) == Len(rest) >= 2 /\ rest[1] = "/" /\ rest[2] = "/"

\* urlparse(url).netloc
netloc(url) ==
    LET rest == AfterScheme(url)
    IN  IF HasNetloc(rest)
        THEN SubSeq(rest, 3, FindAny(rest, {"/", "?", "#"}, 3) - 1)
        ELSE <<>>

\* urlparse(url).path
urlpath(url) ==
    LET rest  == AfterScheme(url)
        start == IF HasNetloc(rest) THEN FindAny(rest, {"/", "?", "#"}, 3) ELSE 1
    IN  SubSeq(rest, start, FindAny(rest, {"?", "#"}, start) - 1)

\* the characters urllib.quote leaves as they are
AlwaysSafe ==
    {c \in Printable : \/ (ord(c) >= 48 /\ ord(c) <= 57)
                       \/ (ord(c) >= 65 /\ ord(c) <= 90)
                       \/ (ord(c) >= 97 /\ ord(c) <= 122)
                       \/ c \in {"_", ".", "-"}}

HexDigits == <<"0","1","2","3","4","5","6","7","8","9","A","B","C","D","E","F">>

RECURSIVE quote_plus(_)
\* urllib.quote_plus(s)
quote_plus(s) ==
    IF s = <<>> THEN <<>>
    ELSE (IF s[1] \in AlwaysSafe THEN <<s[1]>>
          ELSE IF s[1] = " " THEN <<"+">>
          ELSE <<"%", HexDigits[(ord(s[1]) \div 16) + 1], HexDigits[(ord(s[1]) % 16) + 1]>>)
         \o quote_plus(Tail(s))

RECURSIVE urlencode(_)
\* urllib.urlencode(args) of the (key, value) pairs of a dict
urlencode(args) ==
    IF args = <<>> THEN <<>>
    ELSE quote_plus(args[1][1]) \o <<"=">> \o quote_plus(args[1][2])
         \o (IF Len(args) > 1 THEN <<"&">> \o urlencode(Tail(args)) ELSE <<>>)

\* tornado.httputil.url_concat(url, args)
url_concat(url, args) ==
    IF args = <<>> THEN url
    ELSE (IF url[Len(url)] \in {"?", "&"} THEN url
          ELSE url \o (IF "?" \in {url[i] : i \in 1..Len(url)} THEN <<"&">> ELSE <<"?">>))
         \o urlencode(args)

-----------------------------------------------------------------------------
(* AWSRequest.__init__: the statements of the signing computation.  k is    *)
(* the call: its keyword arguments and the instant t captured on entry.     *)

\* a keyword argument that is a str, and one that is None
Str(s) == [isstr |-> TRUE, s |-> s]
None == [isstr |-> FALSE, s |-> <<>>]

\* url.split('?')
url_pieces(k) == split(k.url, "?")

\* url.split('?')[1], of the pieces of url.split('?')
raw_query(pieces) == pieces[2]

\* params = sorted(url.split('?')[1].split('&'))
params(pieces) == sorted(split(raw_query(pieces), "&"))

\* canonical_querystring = '&'.join(params)
canonical_querystring(ps) == join(<<"&">>, ps)

\* kwargs['url'] = url.split('?')[0] + '?' + canonical_querystring
request_url(pieces, cq) == pieces[1] \o <<"?">> \o cq

\* host = parsed_url.netloc
host(k) == netloc(k.url)

\* canonical_uri = parsed_url.path
canonical_uri(k) == urlpath(k.url)

\* amz_date, were the clock read again where the timestamp is formatted
amz_date_read_again(k) == strftime_YmdTHMSZ(utcnow(now))

\* amz_date = t.strftime('%Y%m%dT%H%M%SZ')
amz_date(k) == strftime_YmdTHMSZ(k.t)

\* datestamp, were the clock read again where the date is formatted
datestamp_read_again(k) == strftime_Ymd(utcnow(now))

\* datestamp = t.strftime('%Y%m%d')
datestamp(k) == strftime_Ymd(k.t)

canonical_headers(k, amz) ==
    <<"h","o","s","t",":">> \o host(k) \o <<"\n">> \o <<"x","-","a","m","z","-","d","a","t","e",":">> \o amz \o <<"\n">>

signed_headers == <<"h","o","s","t",";","x","-","a","m","z","-","d","a","t","e">>

\* payload_hash = hashlib.sha256('').hexdigest()
payload_hash == sha256_hexdigest(<<>>)

canonical_request(k, cq, amz) ==
    k.method \o <<"\n">> \o canonical_uri(k) \o <<"\n">> \o cq \o <<"\n">>
        \o canonical_headers(k, amz) \o <<"\n">> \o signed_headers \o <<"\n">> \o payload_hash

algorithm == <<"A","W","S","4","-","H","M","A","C","-","S","H","A","2","5","6">>

credential_scope(k, date) ==
    date \o <<"/">> \o k.region.s \o <<"/">> \o k.service \o <<"/">> \o <<"a","w","s","4","_","r","e","q","u","e","s","t">>

string_to_sign(amz, scope, creq) ==
    algorithm \o <<"\n">> \o amz \o <<"\n">> \o scope \o <<"\n">> \o sha256_hexdigest(creq)

\* AWSRequest.sign
sign(key, msg) == hmac_digest(key, msg)

\* AWSRequest.getSignatureKey
getSignatureKey(key, dateStamp, regionName, serviceName) ==
    LET kDate    == sign(<<"A","W","S","4">> \o key, dateStamp)
        kRegion  == sign(kDate, regionName)
        kService == sign(kRegion, serviceName)
        kSigning == sign(kService, <<"a","w","s","4","_","r","e","q","u","e","s","t">>)
    IN  kSigning

\* signing_key, were the access key mixed into the key derivation
signing_key_with_access_key(k, date) ==
    getSignatureKey(k.secret_key.s \o k.access_key.s, date, k.region.s, k.service)

\* signing_key = self.getSignatureKey(kwargs['secret_key'], datestamp, region, service)
signing_key(k, date) == getSignatureKey(k.secret_key.s, date, k.region.s, k.service)

\* signature = hmac.new(signing_key, string_to_sign.encode('utf-8'), hashlib.sha256).hexdigest()
signature(key, sts) == hmac_hexdigest(key, sts)

authorization_header(k, scope, sig) ==
    algorithm \o <<" ">> \o <<"C","r","e","d","e","n","t","i","a","l","=">> \o k.access_key.s \o <<"/">> \o scope
        \o <<","," ">> \o <<"S","i","g","n","e","d","H","e","a","d","e","r","s","=">> \o signed_headers
        \o <<","," ">> \o <<"S","i","g","n","a","t","u","r","e","=">> \o sig

\* the exception the constructor raises, in the order its statements run
raised(k) ==
    IF Len(url_pieces(k)) < 2 THEN "IndexError"      \* url.split('?')[1]
    ELSE IF ~k.region.isstr THEN "TypeError"         \* datestamp + '/' + region
    ELSE IF ~k.secret_key.isstr THEN "TypeError"     \* 'AWS4' + key
    ELSE IF ~k.access_key.isstr THEN "TypeError"     \* 'Credential=' + kwargs['access_key']
    ELSE "none"

\* d.update(e) of two dicts
dict_update(d, e) == e @@ d

\* updated_headers, were the entries the intent carried kept (setdefault)
updated_headers_keeping(d, amz, auth) ==
    d @@ ("x-amz-date" :> amz) @@ ("Authorization" :> auth)

\* headers.update({'x-amz-date': amz_date, 'Authorization': authorization_header})
updated_headers(d, amz, auth) ==
    dict_update(d, ("x-amz-date" :> amz) @@ ("Authorization" :> auth))

\* the local variables of the constructor when it has run without raising
locals(k) ==
    LET pieces == url_pieces(k)
        cq    == canonical_querystring(params(pieces))
        amz   == amz_date(k)
        date  == datestamp(k)
        creq  == canonical_request(k, cq, amz)
        scope == credential_scope(k, date)
        sts   == string_to_sign(amz, scope, creq)
        key   == signing_key(k, date)
        auth  == authorization_header(k, scope, signature(key, sts))
    IN  [ok |-> TRUE, err |-> "none",
         url |-> request_url(pieces, cq),
         canonical_querystring |-> cq,
         canonical_request |-> creq,
         string_to_sign |-> sts,
         signing_key |-> key,
         amz_date |-> amz,
         authorization_header |-> auth]

-----------------------------------------------------------------------------
(* The SQS and SNS clients: the URL each operation builds.                  *)

\* '{region}'.format(region=v): str(v)
format(v) == IF v.isstr THEN v.s ELSE <<"N","o","n","e">>

\* self.common_params of SQS
common_params == << <<<<"V","e","r","s","i","o","n">>, <<"2","0","1","2","-","1","1","-","0","5">>>> >>

\* params.update(self.common_params): no operation sets Version itself
params_update(ps, more) == ps \o more

RECURSIVE create_queue_attributes(_, _)
\* the Attribute.<i>.Name / Attribute.<i>.Value entries of create_queue, from index i on
create_queue_attributes(attributes, i) ==
    IF attributes = <<>> THEN <<>>
    ELSE << <<<<"A","t","t","r","i","b","u","t","e",".">> \o str(i) \o <<".","N","a","m","e">>, attributes[1][1]>>,
            <<<<"A","t","t","r","i","b","u","t","e",".">> \o str(i) \o <<".","V","a","l","u","e">>, attributes[1][2]>> >>
         \o create_queue_attributes(Tail(attributes), i + 1)

\* the AttributeName.<i+1> entries of get_queue_attributes
attribute_names(attributes) ==
    [i \in 1..Len(attributes) |-> <<<<"A","t","t","r","i","b","u","t","e","N","a","m","e",".">> \o str(i), attributes[i]>>]

\* set_queue_attributes writes every attribute under the same two keys: the last one stays
last_attribute(attributes) ==
    IF attributes = <<>> THEN <<>>
    ELSE << <<<<"A","t","t","r","i","b","u","t","e",".","N","a","m","e">>, attributes[Len(attributes)][1]>>,
            <<<<"A","t","t","r","i","b","u","t","e",".","V","a","l","u","e">>, attributes[Len(attributes)][2]>> >>

listen_queue_url(queue_uri, wait_time, max_messages, visibility_timeout) ==
    url_concat(queue_uri,
        params_update(<< <<<<"A","c","t","i","o","n">>, <<"R","e","c","e","i","v","e","M","e","s","s","a","g","e">>>>,
                         <<<<"W","a","i","t","T","i","m","e","S","e","c","o","n","d","s">>, str(wait_time)>>,
                         <<<<"M","a","x","N","u","m","b","e","r","O","f","M","e","s","s","a","g","e","s">>, str(max_messages)>>,
                         <<<<"V","i","s","i","b","i","l","i","t","y","T","i","m","e","o","u","t">>, str(visibility_timeout)>>,
                         <<<<"A","t","t","r","i","b","u","t","e","N","a","m","e">>, <<"A","l","l">>>> >>, common_params))

send_message_url(queue_url, message_body) ==
    url_concat(queue_url,
        params_update(<< <<<<"A","c","t","i","o","n">>, <<"S","e","n","d","M","e","s","s","a","g","e">>>>,
                         <<<<"M","e","s","s","a","g","e","B","o","d","y">>, message_body>> >>, common_params))

delete_message_url(queue_url, receipt_handle) ==
    url_concat(queue_url,
        params_update(<< <<<<"A","c","t","i","o","n">>, <<"D","e","l","e","t","e","M","e","s","s","a","g","e">>>>,
                         <<<<"R","e","c","e","i","p","t","H","a","n","d","l","e">>, receipt_handle>> >>, common_params))

create_queue_url(queue_name, attributes) ==
    url_concat(<<"h","t","t","p",":","/","/">> \o <<"s","q","s">> \o <<".">> \o format(client.region) \o <<".","a","m","a","z","o","n","a","w","s",".","c","o","m","/">>,
        params_update(<< <<<<"A","c","t","i","o","n">>, <<"C","r","e","a","t","e","Q","u","e","u","e">>>>,
                         <<<<"Q","u","e","u","e","N","a","m","e">>, queue_name>> >>
                      \o create_queue_attributes(attributes, 0), common_params))

delete_queue_url(queue_url) ==
    url_concat(queue_url,
        params_update(<< <<<<"A","c","t","i","o","n">>, <<"D","e","l","e","t","e","Q","u","e","u","e">>>> >>, common_params))

get_queue_attributes_url(queue_url, attributes) ==
    url_concat(queue_url,
        params_update(<< <<<<"A","c","t","i","o","n">>, <<"G","e","t","Q","u","e","u","e","A","t","t","r","i","b","u","t","e","s">>>> >>
                      \o attribute_names(attributes), common_params))

set_queue_attributes_url(queue_url, attributes) ==
    url_concat(queue_url,
        params_update(<< <<<<"A","c","t","i","o","n">>, <<"S","e","t","Q","u","e","u","e","A","t","t","r","i","b","u","t","e","s">>>> >>
                      \o last_attribute(attributes), common_params))

create_topic_url(name) ==
    url_concat(<<"h","t","t","p",":","/","/","s","n","s",".">> \o format(client.region) \o <<".","a","m","a","z","o","n","a","w","s",".","c","o","m","/">>,
        << <<<<"N","a","m","e">>, name>>,
           <<<<"A","c","t","i","o","n">>, <<"C","r","e","a","t","e","T","o","p","i","c">>>>,
           <<<<"V","e","r","s","i","o","n">>, <<"2","0","1","0","-","0","3","-","3","1">>>>,
           <<<<"S","i","g","n","a","t","u","r","e","M","e","t","h","o","d">>, <<"H","m","a","c","S","H","A","2","5","6">>>>,
           <<<<"S","i","g","n","a","t","u","r","e","V","e","r","s","i","o","n">>, str(4)>> >>)

-----------------------------------------------------------------------------
(* Inputs.                                                                  *)

\* the queue the SQS operations are called with
QueueUrl == <<"h","t","t","p","s",":","/","/","q","u","e","u","e",".","e","x","a","m","p","l","e",".","c","o","m","/","1","2","3","/","q">>

\* what the client objects may have been constructed with
Credentials ==
    { [access_key |-> Str(<<"A","K","I","D","E","X","A","M","P","L","E">>), secret_key |-> Str(<<"s","e","c","r","e","t">>), region |-> Str(<<"u","s","-","e","a","s","t","-","1">>)],
      [access_key |-> Str(<<"A","K","I","D","E","X","A","M","P","L","E">>), secret_key |-> Str(<<"s","e","c","r","e","t">>), region |-> None],
      [access_key |-> Str(<<"A","K","I","D","E","X","A","M","P","L","E">>), secret_key |-> None, region |-> Str(<<"u","s","-","e","a","s","t","-","1">>)],
      [access_key |-> None, secret_key |-> Str(<<"s","e","c","r","e","t">>), region |-> Str(<<"u","s","-","e","a","s","t","-","1">>)] }

\* the header dicts callers own before any call, by reference
CallerHeaders ==
    << ("Accept" :> <<"*","/","*">>) @@ ("x-amz-date" :> <<"2","0","0","1","0","1","0","1","T","0","0","0","0","0","0","Z">>)
           @@ ("Authorization" :> <<"s","t","a","l","e">>) >>

\* the access keys of callers that construct an AWSRequest themselves
AccessKeys == {<<"A","K","I","D","E","X","A","M","P","L","E">>, <<"A","K","I","D","O","T","H","E","R">>}

\* the URL of callers that construct an AWSRequest themselves
Url == <<"h","t","t","p",":","/","/","h","/","p","?","B","=","2","&","A","=","1">>

\* the query tokens the canonicalisation runs draw from
Tokens == {<<"A","=","1">>, <<"B","=","2">>, <<"A","=","9">>, <<"A","=","1","0">>, <<"A","+","=","1">>, <<"C","=","x","?","y">>}

RECURSIVE TokenLists(_)
\* every list of at most n tokens
TokenLists(n) ==
    IF n = 0 THEN {<<>>}
    ELSE TokenLists(n - 1)
         \cup {Append(l, x) : l \in {m \in TokenLists(n - 1) : Len(m) = n - 1}, x \in Tokens}

\* a base URL alone, and the base URL followed by '?' and the tokens joined with '&'
QueryUrls ==
    {<<"h","t","t","p",":","/","/","h","/","p">>} \cup {<<"h","t","t","p",":","/","/","h","/","p","?">> \o join(<<"&">>, l) : l \in TokenLists(MaxTokens)}

-----------------------------------------------------------------------------
(* State machine.                                                           *)

NoRequest == [url |-> <<>>, method |-> <<>>, headers |-> 0]

\* the client objects hold usable keys and a region, and no call has been made
Init ==
    /\ calls = <<>>
    /\ heap = CallerHeaders
    /\ now = 0
    /\ transport = <<>>
    /\ client = [access_key |-> Str(<<"A","K","I","D","E","X","A","M","P","L","E">>), secret_key |-> Str(<<"s","e","c","r","e","t">>),
                 region |-> Str(<<"u","s","-","e","a","s","t","-","1">>)]

\* the client objects were constructed with whatever the application passed
InitClient ==
    /\ calls = <<>>
    /\ heap = CallerHeaders
    /\ now = 0
    /\ transport = <<>>
    /\ client \in Credentials

\* AWSRequest(url, **kwargs) is entered: line 14 captures the instant
construct(op, url, headers, access_key, secret_key, service, region) ==
    /\ calls' = Append(calls,
          [op |-> op, url |-> url, method |-> <<"G","E","T">>, headers |-> headers,
           access_key |-> access_key, secret_key |-> secret_key,
           service |-> service, region |-> region,
           t |-> utcnow(now), pc |-> "begun",
           out |-> [ok |-> FALSE, err |-> "none"], request |-> NoRequest])
    /\ UNCHANGED <<heap, now, transport, client>>

\* an operation of a client: builds its URL and enters AWSRequest with the client's keys
operation(op, full_url, service) ==
    /\ Len(calls) < MaxCalls
    /\ construct(op, full_url, 0, client.access_key, client.secret_key, service, client.region)

listen_queue ==
    operation("listen_queue", listen_queue_url(QueueUrl, 15, 1, 300), <<"s","q","s">>)

send_message ==
    operation("send_message", send_message_url(QueueUrl, <<"h","e","l","l","o">>), <<"s","q","s">>)

delete_message ==
    operation("delete_message", delete_message_url(QueueUrl, <<"r","h","+","1","/","2","=">>), <<"s","q","s">>)

create_queue ==
    operation("create_queue", create_queue_url(<<"q">>, <<>>), <<"s","q","s">>)

delete_queue ==
    operation("delete_queue", delete_queue_url(QueueUrl), <<"s","q","s">>)

get_queue_attributes ==
    operation("get_queue_attributes", get_queue_attributes_url(QueueUrl, <<<<"a","l","l">>>>), <<"s","q","s">>)

set_queue_attributes ==
    operation("set_queue_attributes", set_queue_attributes_url(QueueUrl, <<>>), <<"s","q","s">>)

create_topic ==
    operation("create_topic", create_topic_url(<<"t","o","p","i","c">>), <<"s","n","s">>)

\* a caller constructs an AWSRequest itself, with or without a headers dict of its own
AWSRequest(url, headers, access_key) ==
    construct("AWSRequest", url, headers, Str(access_key), Str(<<"s","e","c","r","e","t">>),
              <<"s","q","s">>, Str(<<"u","s","-","e","a","s","t","-","1">>))

\* the rest of AWSRequest.__init__ (lines 15 to 49) of call c
AWSRequest_init(c) ==
    /\ calls[c].pc = "begun"
    /\ LET k == calls[c]
       IN  IF raised(k) # "none"
           THEN /\ calls' = [calls EXCEPT ![c].pc = "failed",
                                          ![c].out = [ok |-> FALSE, err |-> raised(k)]]
                /\ UNCHANGED heap
           ELSE LET ref == IF k.headers = 0 THEN Len(heap) + 1 ELSE k.headers
                    out == locals(k)
                IN  /\ heap' = IF k.headers = 0
                               THEN Append(heap, updated_headers(<<>>, out.amz_date,
                                                                 out.authorization_header))
                               ELSE [heap EXCEPT ![ref] =
                                        updated_headers(@, out.amz_date,
                                                        out.authorization_header)]
                    /\ calls' = [calls EXCEPT
                                   ![c].pc = "signed",
                                   ![c].out = out,
                                   ![c].request = [url |-> out.url,
                                                   method |-> k.method,
                                                   headers |-> ref]]
    /\ UNCHANGED <<now, transport, client>>

\* reaches_fetch, were an exception of the constructor swallowed
reaches_fetch_after_raise(c) == calls[c].op # "AWSRequest" /\ calls[c].pc \in {"signed", "failed"}

\* the operation of call c goes on to its fetch statement: AWSRequest has returned
reaches_fetch(c) == calls[c].op # "AWSRequest" /\ calls[c].pc = "signed"

\* return self._http.fetch(request) of the operation of call c
fetch(c) ==
    /\ reaches_fetch(c)
    /\ transport' = Append(transport,
          [call |-> c, raise_error |-> calls[c].op \notin {"create_topic", "set_queue_attributes"}])
    /\ calls' = [calls EXCEPT ![c].pc = "inflight"]
    /\ UNCHANGED <<heap, now, client>>

\* the transport resolves the future of call c
respond(c) ==
    /\ calls[c].pc = "inflight"
    /\ calls' = [calls EXCEPT ![c].pc = "done"]
    /\ UNCHANGED <<heap, now, transport, client>>

\* a second passes
Tick ==
    /\ now < MaxTicks
    /\ now' = now + 1
    /\ UNCHANGED <<calls, heap, transport, client>>

\* callers sign requests of their own while the SQS client polls its queue
Next ==
    \/ listen_queue
    \/ \E headers \in 0..Len(CallerHeaders), access_key \in AccessKeys :
          Len(calls) < MaxCalls /\ AWSRequest(Url, headers, access_key)
    \/ \E c \in 1..Len(calls) : AWSRequest_init(c)
    \/ \E c \in 1..Len(calls) : fetch(c)
    \/ \E c \in 1..Len(calls) : respond(c)
    \/ Tick

Spec == Init /\ [][Next]_vars

\* the operations of the SQS and SNS clients, up to the hand-over to the transport
NextClient ==
    \/ listen_queue
    \/ send_message
    \/ delete_message
    \/ create_queue
    \/ delete_queue
    \/ get_queue_attributes
    \/ set_queue_attributes
    \/ create_topic
    \/ \E c \in 1..Len(calls) : AWSRequest_init(c)
    \/ \E c \in 1..Len(calls) : fetch(c)

SpecClient == InitClient /\ [][NextClient]_vars

\* one signing call on a drawn URL: the canonicalisation of the query string
NextQuery ==
    \/ \E url \in QueryUrls :
          calls = <<>> /\ AWSRequest(url, 0, <<"A","K","I","D","E","X","A","M","P","L","E">>)
    \/ \E c \in 1..Len(calls) : AWSRequest_init(c)

SpecQuery == Init /\ [][NextQuery]_vars

-----------------------------------------------------------------------------
(* Reading a signed request back: the fields of the strings the constructor *)
(* builds.                                                                   *)

\* the constructor of call c has returned a request
signed(c) == calls[c].pc \in {"signed", "inflight", "done"}

\* the constructor of call c has returned or raised
finished(c) == calls[c].pc # "begun"

\* the text of field number n of an Authorization header, after its '='
auth_field(auth, n) ==
    LET f == split(auth, ",")[n]
    IN  SubSeq(f, FindAny(f, {"="}, 1) + 1, Len(f))

\* Credential=<access key>/<date>/<region>/<service>/aws4_request
auth_credential(auth) == auth_field(auth, 1)

\* Signature=<hex>
auth_signature(auth) == auth_field(auth, 3)

\* the date of a credential scope <date>/<region>/<service>/aws4_request
scope_date(scope) == split(scope, "/")[1]

\* the timestamp and the credential scope of a string to sign: its lines 2 and 3
sts_timestamp(sts) == split(sts, "\n")[2]
sts_scope(sts) == split(sts, "\n")[3]

\* the querystring of a canonical request: its line 3
creq_querystring(creq) == split(creq, "\n")[3]

\* the timestamp of a canonical request: its line 5, x-amz-date:<timestamp>
creq_timestamp(creq) ==
    LET l == split(creq, "\n")[5]
    IN  SubSeq(l, FindAny(l, {":"}, 1) + 1, Len(l))

\* the date message of the first HMAC of a signing key
key_date(key) == key[2][2][2][3]

\* the number of times x occurs in the list xs
count(xs, x) == Cardinality({i \in 1..Len(xs) : xs[i] = x})

\* the same tokens, each the same number of times
same_tokens(xs, ys) ==
    /\ Len(xs) = Len(ys)
    /\ \A i \in 1..Len(xs) : count(xs, xs[i]) = count(ys, xs[i])

\* the reorderings of the list xs
reorderings(xs) ==
    {[i \in 1..Len(xs) |-> xs[f[i]]] :
        f \in {g \in [1..Len(xs) -> 1..Len(xs)] : \A i, j \in 1..Len(xs) : g[i] = g[j] => i = j}}

\* two calls were made with the same arguments, the access key apart, at the same instant
same_but_access_key(a, b) ==
    /\ a.method = b.method /\ a.url = b.url /\ a.headers = b.headers
    /\ a.secret_key = b.secret_key /\ a.service = b.service /\ a.region = b.region
    /\ a.t = b.t

-----------------------------------------------------------------------------
(* Claims.                                                                  *)

\* C1: signing leaves the caller-supplied headers map unchanged: whenever a
\* call that passed a headers dict returns or raises, the dict the caller
\* holds has the keys and values it had before the call.
CallerHeadersUnchanged ==
    [][\A c \in 1..Len(calls) :
          (calls[c].pc = "begun" /\ calls'[c].pc # "begun" /\ calls[c].headers # 0)
              => heap'[calls[c].headers] = heap[calls[c].headers]]_vars

\* the index of the first '?' of a URL, Len(url) + 1 when it has none
first_question_mark(url) == FindAny(url, {"?"}, 1)

\* a URL that carries no query string: no '?', or nothing after it
no_query_string(url) == first_question_mark(url) >= Len(url)

\* C2: a URL that carries no query string (no '?' at all, or nothing after
\* the '?') makes signing fail and produce no request, and every request that
\* is produced has a canonical querystring with at least one parameter.
NoQueryStringFails ==
    \A c \in 1..Len(calls) :
        /\ (finished(c) /\ no_query_string(calls[c].url))
               => (calls[c].pc = "failed" /\ calls[c].request = NoRequest)
        /\ signed(c) => calls[c].out.canonical_querystring # <<>>

\* C3: the transport's fetch is called only with the request of an operation
\* whose signing ran to its end: the request carries the rewritten URL and
\* the two headers the signing computed, and an operation whose signing
\* raised never reaches fetch.
FetchOnlyAfterSigning ==
    /\ \A i \in 1..Len(transport) :
          LET r == calls[transport[i].call]
          IN  /\ r.out.ok
              /\ r.pc \in {"inflight", "done"}
              /\ r.request.url = r.out.url
              /\ {"x-amz-date", "Authorization"} \subseteq DOMAIN heap[r.request.headers]
              /\ heap[r.request.headers]["x-amz-date"] = r.out.amz_date
              /\ heap[r.request.headers]["Authorization"] = r.out.authorization_header
    /\ \A c \in 1..Len(calls) :
          calls[c].pc = "failed" => \A i \in 1..Len(transport) : transport[i].call # c

\* an operation of a client whose signing raised
SigningFailedInOperation ==
    \E c \in 1..Len(calls) : calls[c].op # "AWSRequest" /\ calls[c].pc = "failed"

\* C4: within one signing call the date of the key derivation, the date of
\* the credential scope (in the string to sign and in the Credential= field)
\* and the date prefix of the timestamp are the same, and the timestamp of
\* the canonical headers, of the string to sign and of the x-amz-date header
\* is one value: all of them format the instant captured on entry.
OneCapturedInstant ==
    \A c \in 1..Len(calls) :
        signed(c) =>
            LET o    == calls[c].out
                date == key_date(o.signing_key)
                ts   == sts_timestamp(o.string_to_sign)
            IN  /\ date = scope_date(sts_scope(o.string_to_sign))
                /\ date = split(auth_credential(o.authorization_header), "/")[2]
                /\ date = SubSeq(ts, 1, 8)
                /\ ts = creq_timestamp(o.canonical_request)
                /\ ts = o.amz_date
                /\ ts = strftime_YmdTHMSZ(calls[c].t)

\* a call that returned after the clock had moved on to another day
SignedAcrossMidnight ==
    \E c \in 1..Len(calls) : signed(c) /\ calls[c].t.day # utcnow(now).day

\* C5: the canonical querystring is the '&'-separated tokens of the raw query
\* string in ascending order of the whole tokens, joined with '&'; it is
\* "A=1&B=2" for "B=2&A=1" and "A=10&A=9" for "A=9&A=10", and every
\* reordering of the same tokens gives the same result.
WholeTokenOrder ==
    \A c \in 1..Len(calls) :
        signed(c) =>
            LET raw    == raw_query(url_pieces(calls[c]))
                tokens == split(raw, "&")
                cq     == calls[c].out.canonical_querystring
                sorted_tokens == split(cq, "&")
            IN  /\ same_tokens(sorted_tokens, tokens)
                /\ \A i \in 1..(Len(sorted_tokens) - 1) :
                      ~StrLess(sorted_tokens[i + 1], sorted_tokens[i])
                /\ raw = <<"B","=","2","&","A","=","1">> => cq = <<"A","=","1","&","B","=","2">>
                /\ raw = <<"A","=","9","&","A","=","1","0">> => cq = <<"A","=","1","0","&","A","=","9">>
                /\ \A p \in reorderings(tokens) : canonical_querystring(params(<<<<>>, join(<<"&">>, p)>>)) = cq

\* a signed call whose tokens were not in order, two of them under the same key
ReorderedTokens ==
    \E c \in 1..Len(calls) :
        signed(c) /\ raw_query(url_pieces(calls[c])) = <<"A","=","9","&","A","=","1","0","&","A","=","1">>

\* a request that was returned and whose response has not arrived
outstanding(c) == calls[c].pc \in {"signed", "inflight"}

\* C6: signing a further request never changes the URL or the headers of a
\* request that was signed earlier and is still outstanding.
OutstandingRequestsKeepHeaders ==
    [][\A c \in 1..Len(calls) :
          outstanding(c) =>
              /\ calls'[c].request = calls[c].request
              /\ heap'[calls[c].request.headers] = heap[calls[c].request.headers]]_vars

\* C7: the returned request carries x-amz-date and Authorization with the
\* values computed in this call, in place of any the intent carried under
\* those names, and every other header of the intent with its value.
SigningHeadersReplaced ==
    [][\A c \in 1..Len(calls) :
          (calls[c].pc = "begun" /\ calls'[c].pc = "signed") =>
              LET before == IF calls[c].headers = 0 THEN <<>> ELSE heap[calls[c].headers]
                  after  == heap'[calls'[c].request.headers]
                  ours   == {"x-amz-date", "Authorization"}
              IN  /\ DOMAIN after = DOMAIN before \cup ours
                  /\ after["x-amz-date"] = calls'[c].out.amz_date
                  /\ after["Authorization"] = calls'[c].out.authorization_header
                  /\ \A n \in DOMAIN before \ ours : after[n] = before[n]]_vars

\* a request signed from an intent that carried both headers, and another one
IntentCarriedSigningHeaders ==
    \E c \in 1..Len(calls) :
        /\ signed(c)
        /\ calls[c].headers # 0
        /\ {"x-amz-date", "Authorization", "Accept"} \subseteq DOMAIN CallerHeaders[calls[c].headers]

\* C8: two signing calls that differ only in the access key give different
\* Credential= fields and the same Signature= value, canonical request and
\* string to sign.
AccessKeyNotSigned ==
    \A a, b \in 1..Len(calls) :
        (signed(a) /\ signed(b) /\ same_but_access_key(calls[a], calls[b])
             /\ calls[a].access_key # calls[b].access_key) =>
            /\ auth_credential(calls[a].out.authorization_header)
                   # auth_credential(calls[b].out.authorization_header)
            /\ auth_signature(calls[a].out.authorization_header)
                   = auth_signature(calls[b].out.authorization_header)
            /\ calls[a].out.canonical_request = calls[b].out.canonical_request
            /\ calls[a].out.string_to_sign = calls[b].out.string_to_sign

\* two signed calls that differ only in the access key
TwoAccessKeys ==
    \E a, b \in 1..Len(calls) :
        /\ signed(a) /\ signed(b) /\ same_but_access_key(calls[a], calls[b])
        /\ calls[a].access_key # calls[b].access_key

WholeQueryKept ==
    \A c \in 1..Len(calls) :
        signed(c) =>
            LET url == calls[c].url
                q   == first_question_mark(url)
                cq  == calls[c].out.canonical_querystring
            IN  /\ calls[c].request.url = SubSeq(url, 1, q - 1) \o <<"?">> \o cq
                /\ same_tokens(split(cq, "&"), split(SubSeq(url, q + 1, Len(url)), "&"))
                /\ creq_querystring(calls[c].out.canonical_request) = cq

====
